---- MODULE Spec2Model ----
(***************************************************************************)
(* Model of src/handhistory.py: the hand parser (parse_hand), the position *)
(* resolver (determine_positions), the statistics aggregator               *)
(* (StatsAggregator.add_hand / compute / compute_positional) and the       *)
(* ingestion loop of main.                                                 *)
(*                                                                         *)
(* Decimal amounts (blinds, stacks, bets, results) are held as integers in *)
(* hundredths of a chip; a value rounded with round(x, 2) is held as its   *)
(* integer number of hundredths.  Python's None is the empty tuple for an  *)
(* optional record or number and the string "None" for an optional string. *)
(***************************************************************************)
EXTENDS Integers, Sequences, FiniteSets, TLC

VARIABLES
    \* ---- StatsAggregator fields (src/handhistory.py:186-212)
    hero, hands, total_won_chips, vpip, pfr, hands_count,
    threebet, threebet_opportunities, fold_to_3bet, vs_3bet_opportunities,
    cbet_flop, cbet_flop_opportunities, cbet_turn, cbet_turn_opportunities,
    wtsd, wsd_wins, saw_flop, pos_stats,
    \* ---- values returned by the compute operations since the last add_hand
    stats, pos_output,
    \* ---- number of add_hand calls made so far
    n_added,
    \* ---- parse_hand's frame (src/handhistory.py:72-160) and main's loop
    pc, hand_text, sb, bb, players, board, actions, street, line_no, hand,
    blocks_done, ingest_log

aggVars == <<hero, hands, total_won_chips, vpip, pfr, hands_count,
             threebet, threebet_opportunities, fold_to_3bet,
             vs_3bet_opportunities, cbet_flop, cbet_flop_opportunities,
             cbet_turn, cbet_turn_opportunities, wtsd, wsd_wins, saw_flop,
             pos_stats>>

outVars == <<stats, pos_output>>

parseVars == <<pc, hand_text, sb, bb, players, board, actions, street,
               line_no, hand, blocks_done, ingest_log>>

vars == <<aggVars, outVars, n_added, parseVars>>

\* Python's None for an optional string (a street, a looked-up position).
None == "None"

\* Python's None for an optional record or number; Some(x) is a present value.
NoValue == << >>

Some(x) == <<x>>

HeroName == "Hero"

(***************************************************************************)
(* Data classes                                                            *)
(***************************************************************************)
Player(seat, name, stack) == [seat |-> seat, name |-> name, stack |-> stack]

Action(str, actor, action, amount) ==
    [street |-> str, actor |-> actor, action |-> action, amount |-> amount]

Hand(hand_id, table, sbv, bbv, hero_name, hero_cards, plist, alist, blist, result) ==
    [hand_id |-> hand_id, datetime |-> None, table |-> table, sb |-> sbv,
     bb |-> bbv, hero |-> hero_name, hero_cards |-> hero_cards,
     players |-> plist, actions |-> alist, board |-> blist,
     hero_result |-> result]

(***************************************************************************)
(* Generic helpers: dict.get, sum, mean, round                             *)
(***************************************************************************)
DictGet(d, k, default) == IF k \in DOMAIN d THEN d[k] ELSE default

RECURSIVE Sum(_)
Sum(s) == IF s = << >> THEN 0 ELSE Head(s) + Sum(Tail(s))

\* statistics.mean as an exact fraction num/den
mean(s) == [num |-> Sum(s), den |-> Len(s)]

\* round-half-to-even of the fraction num/den (den > 0) to an integer
RoundHalfEven(num, den) ==
    LET q == num \div den
        r == num % den
    IN  IF 2 * r < den THEN q
        ELSE IF 2 * r > den THEN q + 1
        ELSE IF q % 2 = 0 THEN q ELSE q + 1

\* round(num / den * 100, 2) in hundredths
Pct(num, den) == RoundHalfEven(num * 10000, den)

(***************************************************************************)
(* Position logic                                                          *)
(***************************************************************************)
positions == <<"BTN", "SB", "BB", "UTG", "MP", "CO">>

\* sorted(hand.players, key=lambda p: p.seat): stable, ascending
RECURSIVE InsertBySeat(_, _)
InsertBySeat(p, s) ==
    IF s = << >> THEN <<p>>
    ELSE IF p.seat < Head(s).seat THEN <<p>> \o s
         ELSE <<Head(s)>> \o InsertBySeat(p, Tail(s))

RECURSIVE sorted_players(_)
sorted_players(ps) ==
    IF ps = << >> THEN << >>
    ELSE InsertBySeat(ps[Len(ps)], sorted_players(SubSeq(ps, 1, Len(ps) - 1)))

\* Faulty variant: labels handed out in listing order, without sorting by seat.
determine_positions_unsorted(h) ==
    IF h.players = << >> THEN [n \in {} |-> None]
    ELSE LET sp == h.players
             Last(n) == CHOOSE i \in 1..Len(sp) :
                            /\ sp[i].name = n
                            /\ \A j \in 1..Len(sp) : sp[j].name = n => j <= i
         IN  [n \in {sp[i].name : i \in 1..Len(sp)} |->
                 positions[((Last(n) - 1) % Len(positions)) + 1]]

\* {player_name -> position}; a later entry of the same name overwrites
determine_positions(h) ==
    IF h.players = << >> THEN [n \in {} |-> None]
    ELSE LET sp == sorted_players(h.players)
             Last(n) == CHOOSE i \in 1..Len(sp) :
                            /\ sp[i].name = n
                            /\ \A j \in 1..Len(sp) : sp[j].name = n => j <= i
         IN  [n \in {sp[i].name : i \in 1..Len(sp)} |->
                 positions[((Last(n) - 1) % Len(positions)) + 1]]

(***************************************************************************)
(* StatsAggregator                                                         *)
(***************************************************************************)
\* pos_stats = defaultdict(Counter): pos_stats[pos][key] += 1
CounterInc(ps, pos, key) ==
    LET cnt == IF pos \in DOMAIN ps THEN ps[pos] ELSE [k \in {} |-> 0]
        new == [k \in DOMAIN cnt \cup {key} |->
                   IF k = key THEN DictGet(cnt, key, 0) + 1 ELSE cnt[k]]
    IN  [q \in DOMAIN ps \cup {pos} |-> IF q = pos THEN new ELSE ps[q]]

\* the position key add_hand files the hand under
hero_pos_of(h) == DictGet(determine_positions(h), hero, "UNKNOWN")

IsHeroPreflop(a) == a.street = "preflop" /\ a.actor = hero

IsVpipAction(a) == a.action \in {"calls", "raises", "bets", "all-in"}

IsPfrAction(a) == a.action \in {"raises", "bets", "all-in"}

IsFlop(a) == a.street = "flop"

IsTurn(a) == a.street = "turn"

preflop_actions_of(h) == SelectSeq(h.actions, IsHeroPreflop)

did_vpip_of(h) == SelectSeq(preflop_actions_of(h), IsVpipAction) # << >>

did_pfr_of(h) == SelectSeq(preflop_actions_of(h), IsPfrAction) # << >>

flop_actions_of(h) == SelectSeq(h.actions, IsFlop)

turn_actions_of(h) == SelectSeq(h.actions, IsTurn)

\* "if hand.board and len(hand.board) == 5"
reached_showdown(h) == h.board # << >> /\ Len(h.board) = 5

flop_cbet_opportunity(h) == did_pfr_of(h) /\ flop_actions_of(h) # << >>

\* Faulty variant: a flop hit counted whenever hero acts first on the flop, with no
\* opportunity check.
flop_cbet_hit_ungated(h) ==
    flop_actions_of(h) # << >> /\ flop_actions_of(h)[1].actor = hero

flop_cbet_hit(h) == flop_cbet_opportunity(h) /\ flop_actions_of(h)[1].actor = hero

turn_cbet_opportunity(h) == did_pfr_of(h) /\ turn_actions_of(h) # << >>

turn_cbet_hit(h) == turn_cbet_opportunity(h) /\ turn_actions_of(h)[1].actor = hero

Bump(cond) == IF cond THEN 1 ELSE 0

\* Faulty variant: the positional pfr counter is not kept.
pos_stats_after_no_pfr(h) ==
    LET hero_pos == hero_pos_of(h)
        ps1 == CounterInc(pos_stats, hero_pos, "hands")
        ps2 == IF did_vpip_of(h) THEN CounterInc(ps1, hero_pos, "vpip") ELSE ps1
        ps4 == IF flop_cbet_hit(h) THEN CounterInc(ps2, hero_pos, "cbet_flop") ELSE ps2
    IN  IF turn_cbet_hit(h) THEN CounterInc(ps4, hero_pos, "cbet_turn") ELSE ps4

\* the per-position counters after add_hand has filed hand h
pos_stats_after(h) ==
    LET hero_pos == hero_pos_of(h)
        ps1 == CounterInc(pos_stats, hero_pos, "hands")
        ps2 == IF did_vpip_of(h) THEN CounterInc(ps1, hero_pos, "vpip") ELSE ps1
        ps3 == IF did_pfr_of(h) THEN CounterInc(ps2, hero_pos, "pfr") ELSE ps2
        ps4 == IF flop_cbet_hit(h) THEN CounterInc(ps3, hero_pos, "cbet_flop") ELSE ps3
    IN  IF turn_cbet_hit(h) THEN CounterInc(ps4, hero_pos, "cbet_turn") ELSE ps4

add_hand(h) ==
    /\ hands' = Append(hands, h)
    /\ hands_count' = hands_count + 1
    /\ total_won_chips' = total_won_chips + h.hero_result
    /\ pos_stats' = pos_stats_after(h)
    /\ vpip' = vpip + Bump(did_vpip_of(h))
    /\ pfr' = pfr + Bump(did_pfr_of(h))
    /\ saw_flop' = saw_flop + Bump(flop_actions_of(h) # << >>)
    /\ wtsd' = wtsd + Bump(reached_showdown(h))
    /\ wsd_wins' = wsd_wins + Bump(reached_showdown(h) /\ h.hero_result > 0)
    /\ cbet_flop_opportunities' =
           cbet_flop_opportunities + Bump(flop_cbet_opportunity(h))
    /\ cbet_flop' = cbet_flop + Bump(flop_cbet_hit(h))
    /\ cbet_turn_opportunities' =
           cbet_turn_opportunities + Bump(turn_cbet_opportunity(h))
    /\ cbet_turn' = cbet_turn + Bump(turn_cbet_hit(h))
    /\ UNCHANGED <<hero, threebet, threebet_opportunities, fold_to_3bet,
                   vs_3bet_opportunities>>

\* ---------------- compute ----------------
ZeroDivisionError == [exc |-> "ZeroDivisionError"]

Raised(r) == "exc" \in DOMAIN r

\* Faulty variant: the hand count used as a divisor without the "or 1" guard.
total_unguarded == hands_count

\* "self.hands_count or 1"
total == IF hands_count # 0 THEN hands_count ELSE 1

\* "self.saw_flop or 1"
wtsd_den == IF saw_flop # 0 THEN saw_flop ELSE 1

\* "self.wtsd or 1"
wsd_den == IF wtsd # 0 THEN wtsd ELSE 1

\* "mean([h.bb for h in self.hands]) if self.hands else 1"
avg_bb == IF hands # << >> THEN mean([k \in 1..Len(hands) |-> hands[k].bb])
          ELSE [num |-> 100, den |-> 1]

\* round(won / avg * 100 / n, 2) in hundredths; won and avg are in hundredths
bb100(won, avg, n) == RoundHalfEven(won * avg.den * 10000, avg.num * n)

compute_result ==
    IF total = 0 \/ wtsd_den = 0 \/ wsd_den = 0 \/ avg_bb.num = 0
    THEN ZeroDivisionError
    ELSE LET vpip_pct == Pct(vpip, total)
             pfr_pct == Pct(pfr, total)
         IN  [hands |-> hands_count,
              vpip_pct |-> vpip_pct,
              pfr_pct |-> pfr_pct,
              vpip_pfr_gap |-> vpip_pct - pfr_pct,
              cbet_flop_pct |->
                  IF cbet_flop_opportunities # 0
                  THEN Pct(cbet_flop, cbet_flop_opportunities) ELSE 0,
              cbet_turn_pct |->
                  IF cbet_turn_opportunities # 0
                  THEN Pct(cbet_turn, cbet_turn_opportunities) ELSE 0,
              wtsd_pct |-> Pct(wtsd, wtsd_den),
              wsd_pct |-> Pct(wsd_wins, wsd_den),
              total_won_chips |-> total_won_chips,
              bb_per_100 |-> bb100(total_won_chips, avg_bb, total)]

\* Faulty variant: compute stores the guarded divisor back into the hand counter.
compute_storing_total ==
    /\ stats' = Some(compute_result)
    /\ hands_count' = total
    /\ UNCHANGED <<hero, hands, total_won_chips, vpip, pfr, threebet,
                   threebet_opportunities, fold_to_3bet, vs_3bet_opportunities,
                   cbet_flop, cbet_flop_opportunities, cbet_turn,
                   cbet_turn_opportunities, wtsd, wsd_wins, saw_flop, pos_stats,
                   pos_output, n_added, parseVars>>

compute ==
    /\ stats' = Some(compute_result)
    /\ UNCHANGED <<aggVars, pos_output, n_added, parseVars>>

\* ---------------- compute_positional ----------------
\* "[h.hero_result for h in self.hands if determine_positions(h).get(self.hero) == pos]"
results_at(pos) ==
    LET AtPos(h) == DictGet(determine_positions(h), hero, None) = pos
        sel == SelectSeq(hands, AtPos)
    IN  [k \in 1..Len(sel) |-> sel[k].hero_result]

\* "mean([h.bb for h in self.hands])" of compute_positional
avg_bb_positional == mean([k \in 1..Len(hands) |-> hands[k].bb])

\* the entry compute_positional builds for one position key with hands > 0
\* (the local cbf is computed with a non-zero divisor and never returned)
pos_entry(pos) ==
    LET cnt == pos_stats[pos]
        n == DictGet(cnt, "hands", 0)
        results == results_at(pos)
    IN  [hands |-> n,
         vpip_pct |-> Pct(DictGet(cnt, "vpip", 0), n),
         pfr_pct |-> Pct(DictGet(cnt, "pfr", 0), n),
         bb_per_100 |->
             IF results # << >>
             THEN bb100(Sum(results), avg_bb_positional, Len(results))
             ELSE 0]

compute_positional_result ==
    LET keys == {q \in DOMAIN pos_stats : DictGet(pos_stats[q], "hands", 0) # 0}
    IN  IF \E q \in keys : results_at(q) # << >> /\ avg_bb_positional.num = 0
        THEN ZeroDivisionError
        ELSE [q \in keys |-> pos_entry(q)]

compute_positional ==
    /\ pos_output' = Some(compute_positional_result)
    /\ UNCHANGED <<aggVars, stats, n_added, parseVars>>

(***************************************************************************)
(* Aggregator specification: a fresh StatsAggregator, then any sequence of *)
(* add_hand, compute and compute_positional calls                          *)
(***************************************************************************)
MaxHands == 3

Cards == <<"Ah", "Kd", "7c", "2s", "9h">>

Deal(n) == SubSeq(Cards, 1, n)

V(k) == <<"V1", "V2", "V3", "V4", "V5", "V6">>[k]

Seat(n, name) == Player(n, name, 10000)

Act(str, actor, action) == Action(str, actor, action, NoValue)

Bet(str, actor, action, amount) == Action(str, actor, action, Some(amount))

MkHand(id, bbv, plist, alist, blist, result) ==
    Hand(id, "T1", bbv \div 2, bbv, HeroName, <<"As", "Ks">>, plist, alist,
         blist, result)

\* Well-formed hands offered to add_hand.
HandInputs ==
    { \* hero on the lowest seat folds preflop
      MkHand("1", 100, <<Seat(1, HeroName), Seat(2, V(1))>>,
             <<Act("preflop", HeroName, "folds")>>, << >>, 0),
      \* hero second in seat order (listed first) calls; villain bets the flop
      MkHand("2", 100, <<Seat(5, HeroName), Seat(3, V(1))>>,
             <<Bet("preflop", HeroName, "calls", 100),
               Bet("flop", V(1), "bets", 200)>>, Deal(3), -100),
      \* hero raises, bets the flop first, checks the turn, wins at showdown
      MkHand("3", 100, <<Seat(1, HeroName), Seat(2, V(1))>>,
             <<Bet("preflop", HeroName, "raises", 300),
               Bet("flop", HeroName, "bets", 400),
               Act("turn", HeroName, "checks")>>, Deal(5), 2000),
      \* hero raises, villain leads flop and turn, hero loses at showdown
      MkHand("4", 200, <<Seat(2, V(1)), Seat(4, V(2)), Seat(6, HeroName)>>,
             <<Bet("preflop", HeroName, "raises", 600),
               Bet("flop", V(1), "bets", 400),
               Bet("flop", HeroName, "calls", 400),
               Bet("turn", V(1), "bets", 800)>>, Deal(5), -300),
      \* hero all-in preflop: the board runs out with no flop action
      MkHand("5", 200, <<Seat(1, V(1)), Seat(2, V(2)), Seat(3, V(3)),
                         Seat(4, HeroName)>>,
             <<Act("preflop", HeroName, "all-in")>>, Deal(5), 300),
      \* hero is not among the seated players; bets the turn first
      MkHand("6", 200, <<Seat(1, V(1)), Seat(2, V(2))>>,
             <<Bet("preflop", HeroName, "bets", 400),
               Act("turn", HeroName, "bets")>>, Deal(4), 100),
      \* seven players: hero on the highest seat wraps round to the first label
      MkHand("7", 100, <<Seat(1, V(1)), Seat(2, V(2)), Seat(3, V(3)),
                         Seat(4, V(4)), Seat(5, V(5)), Seat(6, V(6)),
                         Seat(9, HeroName)>>,
             <<Act("preflop", V(1), "raises"),
               Act("preflop", HeroName, "calls"),
               Act("flop", HeroName, "checks")>>, Deal(3), 400),
      \* no seat lines and no actions at all
      MkHand("8", 100, << >>, << >>, << >>, 0),
      \* six players, hero sixth: villain checks the flop first, hero bets the turn
      MkHand("9", 100, <<Seat(1, V(1)), Seat(2, V(2)), Seat(3, V(3)),
                         Seat(4, V(4)), Seat(5, V(5)), Seat(8, HeroName)>>,
             <<Bet("preflop", HeroName, "raises", 300),
               Act("flop", V(1), "checks"),
               Bet("flop", HeroName, "bets", 200),
               Bet("turn", HeroName, "bets", 400)>>, Deal(4), -200) }

FreshAggregator ==
    /\ hero = HeroName
    /\ hands = << >>
    /\ total_won_chips = 0
    /\ vpip = 0 /\ pfr = 0 /\ hands_count = 0
    /\ threebet = 0 /\ threebet_opportunities = 0
    /\ fold_to_3bet = 0 /\ vs_3bet_opportunities = 0
    /\ cbet_flop = 0 /\ cbet_flop_opportunities = 0
    /\ cbet_turn = 0 /\ cbet_turn_opportunities = 0
    /\ wtsd = 0 /\ wsd_wins = 0 /\ saw_flop = 0
    /\ pos_stats = [q \in {} |-> [k \in {} |-> 0]]

ParserIdle ==
    /\ pc = "idle"
    /\ hand_text = << >>
    /\ sb = 0 /\ bb = 0
    /\ players = << >> /\ board = << >> /\ actions = << >>
    /\ street = None
    /\ line_no = 0
    /\ hand = NoValue
    /\ blocks_done = 0
    /\ ingest_log = << >>

Init ==
    /\ FreshAggregator
    /\ stats = NoValue /\ pos_output = NoValue
    /\ n_added = 0
    /\ ParserIdle

\* a caller's aggregator.add_hand(h) on any well-formed hand
AddHandStep ==
    /\ n_added < MaxHands
    /\ \E h \in HandInputs : add_hand(h)
    /\ n_added' = n_added + 1
    /\ stats' = NoValue /\ pos_output' = NoValue
    /\ UNCHANGED parseVars

Next == AddHandStep \/ compute \/ compute_positional

Spec == Init /\ [][Next]_vars

(***************************************************************************)
(* Hand text.  A block is a sequence of lines; a line is a record of the   *)
(* pieces the parser's patterns look at:                                   *)
(*   header     "Poker Hand #<id>"                                         *)
(*   blinds     "Blinds <sb>/<bb>"                                         *)
(*   seat       "Seat <seat>: <name> (<stack>)"                            *)
(*   cards      "<name>: Card dealt to <name> [<c1> <c2>]"                 *)
(*   board      "Board [<cards>]"                                          *)
(*   marker     "*** <words> ***"                                          *)
(*   action     "<actor>: <verb>" or "<actor>: <verb> <amount>"            *)
(*   collected  "<name> collected <amount>"                                *)
(*   lost       "<name> lost <amount>"                                     *)
(* Numeric tokens are strings; what float() and the patterns make of each  *)
(* token is tabulated below.                                               *)
(***************************************************************************)
HeaderLine(id) == [kind |-> "header", id |-> id]

BlindsLine(s, b) == [kind |-> "blinds", sb |-> s, bb |-> b]

SeatLine(n, name, stack) == [kind |-> "seat", seat |-> n, name |-> name, stack |-> stack]

CardsLine(name, c1, c2) == [kind |-> "cards", name |-> name, c1 |-> c1, c2 |-> c2]

BoardLine(cards) == [kind |-> "board", cards |-> cards]

MarkerLine(words) == [kind |-> "marker", words |-> words]

ActionLine(actor, verb, amount) ==
    [kind |-> "action", actor |-> actor, verb |-> verb, amount |-> amount]

CollectedLine(name, amount) == [kind |-> "collected", name |-> name, amount |-> amount]

LostLine(name, amount) == [kind |-> "lost", name |-> name, amount |-> amount]

\* an action line with nothing after the verb
NoToken == ""

\* str.replace("$", "")
StripDollar(tok) == IF tok = "$2" THEN "2" ELSE tok

\* float(tok) for the tokens it accepts, in hundredths; it raises ValueError
\* on every other token ("1.2.3", "abc", "")
FloatTable ==
    [t \in {"1", "2", "20", "100", "1_0"} |->
        CASE t = "1" -> 100
          [] t = "2" -> 200
          [] t = "20" -> 2000
          [] t = "100" -> 10000
          [] t = "1_0" -> 1000]

FloatAccepts(tok) == StripDollar(tok) \in DOMAIN FloatTable

float(tok) == FloatTable[StripDollar(tok)]

\* whether the whole token matches [\d\.]+
DigitsDots(tok) == tok \in {"1", "2", "20", "100", "1.2.3"}

\* what \$?([\d\.]+) or (\$?[\d\.]+) captures at the start of the token:
\* the longest prefix of digits and dots (after an optional "$"), "" if none
NumberPrefix(tok) ==
    CASE tok = "1_0" -> "1"
      [] tok \in {"abc", NoToken} -> ""
      [] OTHER -> tok

\* first line of a kind (re.search finds the leftmost match), NoValue if none
FirstLine(matches) == IF matches = << >> THEN NoValue ELSE Some(matches[1])

IsHeaderWithId(l) == l.kind = "header" /\ l.id # ""

IsBlinds(l) == l.kind = "blinds"

\* "Seat (\d+): (\S+) \(([\d\.]+)\)"
IsSeatMatch(l) == l.kind = "seat" /\ DigitsDots(l.stack)

IsBoard(l) == l.kind = "board"

IsHeroCards(l) == l.kind = "cards" /\ l.name = hero

IsHeroCollected(l) == l.kind = "collected" /\ l.name = hero /\ NumberPrefix(l.amount) # ""

IsHeroLost(l) == l.kind = "lost" /\ l.name = hero /\ NumberPrefix(l.amount) # ""

Verbs == {"folds", "checks", "calls", "bets", "raises", "all-in"}

\* "(\S+): (folds|checks|calls|bets|raises|all-in)(?: (\$?[\d\.]+))?"
IsActionMatch(l) == l.kind = "action" /\ l.verb \in Verbs

(***************************************************************************)
(* parse_hand, in the order of its sections, and main's ingestion loop     *)
(*   pc = "idle"      main is between blocks                               *)
(*   pc = "lines"     parse_hand is in its loop over the lines             *)
(*   pc = "raised"    an exception is in flight inside parse_hand's try    *)
(*   pc = "returned"  parse_hand has returned (hand is a Hand or None)     *)
(*   pc = "crashed"   an exception left parse_hand                         *)
(***************************************************************************)
hand_id_of(text) ==
    LET m == FirstLine(SelectSeq(text, IsHeaderWithId)) IN IF m # NoValue THEN m[1].id ELSE "UNKNOWN"

hero_cards_of(text) ==
    LET m == FirstLine(SelectSeq(text, IsHeroCards)) IN IF m # NoValue THEN <<m[1].c1, m[1].c2>> ELSE << >>

\* HEADER, PLAYERS, HERO CARDS and BOARD sections of the block main hands over
parse_hand_header(block) ==
    LET stake_match == FirstLine(SelectSeq(block, IsBlinds))
        seats == SelectSeq(block, IsSeatMatch)
        board_match == FirstLine(SelectSeq(block, IsBoard))
        stake_raises == /\ stake_match # NoValue
                        /\ ~(FloatAccepts(stake_match[1].sb) /\ FloatAccepts(stake_match[1].bb))
        stack_raises == \E k \in 1..Len(seats) : ~FloatAccepts(seats[k].stack)
    IN  /\ pc = "idle"
        /\ hand_text' = block
        /\ hand' = NoValue
        /\ IF stake_raises \/ stack_raises
           THEN /\ pc' = "raised"
                /\ UNCHANGED <<sb, bb, players, board, actions, street, line_no>>
           ELSE /\ pc' = "lines"
                /\ sb' = IF stake_match # NoValue THEN float(stake_match[1].sb) ELSE 50
                /\ bb' = IF stake_match # NoValue THEN float(stake_match[1].bb) ELSE 100
                /\ players' = [k \in 1..Len(seats) |->
                                  Player(seats[k].seat, seats[k].name, float(seats[k].stack))]
                /\ board' = IF board_match # NoValue THEN board_match[1].cards ELSE << >>
                /\ actions' = << >>
                /\ street' = None
                /\ line_no' = 1
        /\ UNCHANGED <<aggVars, outVars, n_added, blocks_done, ingest_log>>

\* the street a section-marker line switches to
marker_street(l) ==
    IF "FLOP" \in l.words THEN "flop"
    ELSE IF "TURN" \in l.words THEN "turn"
    ELSE IF "RIVER" \in l.words THEN "river"
    ELSE "preflop"

\* one iteration of "for line in hand_text.splitlines()"
parse_hand_line ==
    LET line == hand_text[line_no]
        amount == NumberPrefix(line.amount)
    IN  /\ pc = "lines"
        /\ line_no <= Len(hand_text)
        /\ IF line.kind = "marker"
           THEN /\ street' = marker_street(line)
                /\ line_no' = line_no + 1
                /\ UNCHANGED <<pc, actions>>
           ELSE IF IsActionMatch(line) /\ street # None
           THEN IF amount # "" /\ ~FloatAccepts(amount)
                THEN /\ pc' = "raised"
                     /\ UNCHANGED <<actions, street, line_no>>
                ELSE /\ actions' = Append(actions,
                             Action(street, line.actor, line.verb,
                                    IF amount # "" THEN Some(float(amount)) ELSE NoValue))
                     /\ line_no' = line_no + 1
                     /\ UNCHANGED <<pc, street>>
           ELSE /\ line_no' = line_no + 1
                /\ UNCHANGED <<pc, actions, street>>
        /\ UNCHANGED <<aggVars, outVars, n_added, hand_text, sb, bb, players,
                       board, hand, blocks_done, ingest_log>>

\* HERO RESULT section and the return of the Hand
parse_hand_result ==
    LET win == FirstLine(SelectSeq(hand_text, IsHeroCollected))
        lose == FirstLine(SelectSeq(hand_text, IsHeroLost))
        win_raises == win # NoValue /\ ~FloatAccepts(NumberPrefix(win[1].amount))
        lose_raises == lose # NoValue /\ ~FloatAccepts(NumberPrefix(lose[1].amount))
        result == (IF win # NoValue THEN float(NumberPrefix(win[1].amount)) ELSE 0)
                  - (IF lose # NoValue THEN float(NumberPrefix(lose[1].amount)) ELSE 0)
    IN  /\ pc = "lines"
        /\ line_no > Len(hand_text)
        /\ IF win_raises \/ lose_raises
           THEN pc' = "raised" /\ UNCHANGED hand
           ELSE /\ pc' = "returned"
                /\ hand' = Some(Hand(hand_id_of(hand_text), "UnknownTable", sb, bb, hero,
                                     hero_cards_of(hand_text), players, actions,
                                     board, result))
        /\ UNCHANGED <<aggVars, outVars, n_added, hand_text, sb, bb, players,
                       board, actions, street, line_no, blocks_done, ingest_log>>

\* Faulty variant: the exception is not caught and leaves parse_hand.
parse_hand_except_propagates ==
    /\ pc = "raised"
    /\ pc' = "crashed"
    /\ UNCHANGED <<aggVars, outVars, n_added, hand_text, sb, bb, players, board,
                   actions, street, line_no, hand, blocks_done, ingest_log>>

\* "except Exception: ... return None"
parse_hand_except ==
    /\ pc = "raised"
    /\ pc' = "returned"
    /\ hand' = NoValue
    /\ UNCHANGED <<aggVars, outVars, n_added, hand_text, sb, bb, players, board,
                   actions, street, line_no, blocks_done, ingest_log>>

\* "if hand: aggregator.add_hand(hand) else: logging.debug(...)"; parse_hand's
\* frame is gone once its result has been consumed
main_ingest ==
    /\ pc = "returned"
    /\ IF hand # NoValue
       THEN /\ add_hand(hand[1])
            /\ n_added' = n_added + 1
            /\ ingest_log' = Append(ingest_log, "added")
       ELSE /\ UNCHANGED <<aggVars, n_added>>
            /\ ingest_log' = Append(ingest_log, "failed")
    /\ blocks_done' = blocks_done + 1
    /\ pc' = "idle"
    /\ hand_text' = << >>
    /\ sb' = 0 /\ bb' = 0
    /\ players' = << >> /\ board' = << >> /\ actions' = << >>
    /\ street' = None
    /\ line_no' = 0
    /\ hand' = NoValue
    /\ UNCHANGED outVars

\* "for block in iter_hand_texts(text): hand = parse_hand(block, args.hero)"
main_next_block(Blocks, limit) ==
    /\ pc = "idle"
    /\ blocks_done < limit
    /\ \E block \in Blocks : parse_hand_header(block)

(***************************************************************************)
(* Parser specification: one block, any sequence of up to MaxLines lines   *)
(* after its "Poker Hand #" line                                           *)
(***************************************************************************)
MaxLines == 3

ParseLines ==
    { BlindsLine("abc", "abc"), BlindsLine("1_0", "1_0"),
      SeatLine(1, HeroName, "100"), SeatLine(1, HeroName, "1.2.3"),
      SeatLine(1, HeroName, "abc"),
      BoardLine(Deal(2)), BoardLine(Deal(5)),
      MarkerLine({"HOLE", "CARDS"}), MarkerLine({"FLOP"}), MarkerLine({"TURN"}),
      MarkerLine({"RIVER"}),
      ActionLine(HeroName, "raises", "$2"), ActionLine(V(1), "checks", NoToken),
      ActionLine(HeroName, "bets", "1.2.3"), ActionLine(HeroName, "shows", NoToken),
      CollectedLine(HeroName, "20") }

SeqsUpTo(S, n) == UNION {[1..k -> S] : k \in 0..n}

ParseBlocks == {<<HeaderLine("42")>> \o body : body \in SeqsUpTo(ParseLines, MaxLines)}

ParseNext ==
    \/ main_next_block(ParseBlocks, 1)
    \/ parse_hand_line
    \/ parse_hand_result
    \/ parse_hand_except
    \/ main_ingest

SpecParse == Init /\ [][ParseNext]_vars

(***************************************************************************)
(* Ingestion specification: main's loop over up to MaxBlocks blocks        *)
(***************************************************************************)
MaxBlocks == 2

MainBlocks ==
    { \* a well-formed block
      <<HeaderLine("42"), BlindsLine("2", "2"), SeatLine(1, HeroName, "100"),
        MarkerLine({"HOLE", "CARDS"}), ActionLine(HeroName, "raises", "$2"),
        CollectedLine(HeroName, "20")>>,
      \* nothing but the hand marker, without a numeric identifier
      <<HeaderLine("")>>,
      \* stakes that are not numbers
      <<HeaderLine("43"), BlindsLine("abc", "abc"), SeatLine(1, HeroName, "100")>>,
      \* stakes float() accepts although they are no decimal
      <<HeaderLine("44"), BlindsLine("1_0", "1_0"), SeatLine(1, HeroName, "100")>>,
      \* a stack of digits and dots that is no number
      <<HeaderLine("45"), SeatLine(1, HeroName, "1.2.3"), SeatLine(2, V(1), "100")>>,
      \* a stack that is not made of digits and dots
      <<HeaderLine("46"), SeatLine(1, HeroName, "abc"), SeatLine(2, V(1), "100")>>,
      \* a malformed bet amount after a section marker
      <<HeaderLine("47"), MarkerLine({"FLOP"}), ActionLine(HeroName, "bets", "1.2.3")>>,
      \* a malformed amount won
      <<HeaderLine("48"), LostLine(HeroName, "2"), CollectedLine(HeroName, "1.2.3")>> }

MainNext ==
    \/ main_next_block(MainBlocks, MaxBlocks)
    \/ parse_hand_line
    \/ parse_hand_result
    \/ parse_hand_except
    \/ main_ingest

SpecMain == Init /\ [][MainNext]_vars

(***************************************************************************)
(* Claims about the aggregator, checked under Spec                         *)
(***************************************************************************)
Computed == stats # NoValue /\ ~Raised(stats[1])

PositionalComputed == pos_output # NoValue /\ ~Raised(pos_output[1])

RECURSIVE SetSum(_, _)
SetSum(S, f) ==
    IF S = {} THEN 0
    ELSE LET x == CHOOSE y \in S : TRUE IN f[x] + SetSum(S \ {x}, f)

\* sum over every position key of the positional counter named key
PosTotal(key) ==
    SetSum(DOMAIN pos_stats, [q \in DOMAIN pos_stats |-> DictGet(pos_stats[q], key, 0)])

HasAction(h, str) == \E k \in 1..Len(h.actions) : h.actions[k].street = str

HeroRaisedPreflop(h) ==
    \E k \in 1..Len(h.actions) :
        /\ h.actions[k].street = "preflop"
        /\ h.actions[k].actor = hero
        /\ h.actions[k].action \in {"raises", "bets", "all-in"}

\* C1: every percentage compute returns lies in [0, 100] and vpip_pfr_gap in
\* [-100, 100] (values in hundredths).
C1_PercentagesInRange ==
    Computed =>
        /\ \A k \in {"vpip_pct", "pfr_pct", "cbet_flop_pct", "cbet_turn_pct",
                     "wtsd_pct", "wsd_pct"} :
               stats[1][k] >= 0 /\ stats[1][k] <= 10000
        /\ stats[1].vpip_pfr_gap >= -10000 /\ stats[1].vpip_pfr_gap <= 10000

PfrWithFlop(h) == HeroRaisedPreflop(h) /\ HasAction(h, "flop")

PfrWithTurn(h) == HeroRaisedPreflop(h) /\ HasAction(h, "turn")

PfrFlopHands == Cardinality({k \in 1..Len(hands) : PfrWithFlop(hands[k])})

PfrTurnHands == Cardinality({k \in 1..Len(hands) : PfrWithTurn(hands[k])})

C2_Bounds ==
    /\ cbet_flop <= cbet_flop_opportunities
    /\ cbet_flop_opportunities <= PfrFlopHands
    /\ cbet_flop_opportunities <= pfr
    /\ cbet_flop_opportunities <= saw_flop
    /\ cbet_turn <= cbet_turn_opportunities
    /\ cbet_turn_opportunities <= PfrTurnHands
    /\ cbet_turn_opportunities <= pfr

C2_HitNeedsOpportunity ==
    /\ cbet_flop' > cbet_flop => cbet_flop_opportunities' > cbet_flop_opportunities
    /\ cbet_turn' > cbet_turn => cbet_turn_opportunities' > cbet_turn_opportunities

\* C2: c-bet hits never exceed opportunities, opportunities never exceed the
\* number of ingested hands where hero raised preflop and the street was
\* played (nor pfr, nor saw_flop for the flop), and a step that counts a hit
\* also counts an opportunity.
C2_CbetGating == []C2_Bounds /\ [][C2_HitNeedsOpportunity]_vars

C2_Witness ==
    /\ cbet_flop >= 1 /\ cbet_flop_opportunities > cbet_flop
    /\ cbet_turn >= 1 /\ cbet_turn_opportunities > cbet_turn
    /\ pfr > cbet_flop_opportunities

\* C3: with zero hands ingested compute returns without raising, every
\* percentage is 0.00 and bb_per_100 is 0 against the fallback mean of 1;
\* compute_positional returns without raising.
C3_ZeroHands ==
    n_added = 0 =>
        /\ avg_bb = [num |-> 100, den |-> 1]
        /\ stats # NoValue =>
               /\ ~Raised(stats[1])
               /\ \A k \in {"vpip_pct", "pfr_pct", "vpip_pfr_gap", "cbet_flop_pct",
                            "cbet_turn_pct", "wtsd_pct", "wsd_pct", "bb_per_100"} :
                      stats[1][k] = 0
        /\ pos_output # NoValue =>
               ~Raised(pos_output[1]) /\ DOMAIN pos_output[1] = {}

C3_Witness == n_added = 0 /\ stats # NoValue /\ pos_output # NoValue

\* C4: a step that is not an add_hand (a compute or compute_positional call)
\* changes no aggregator field, and a result already returned since the last
\* add_hand is returned again unchanged.
C4_ComputeIsPureRead ==
    [][n_added' = n_added =>
          /\ aggVars' = aggVars
          /\ stats # NoValue => stats' = stats
          /\ pos_output # NoValue => pos_output' = pos_output]_vars

C4_Witness == n_added >= 2 /\ Computed /\ PositionalComputed /\ vpip >= 1

HandsAt(P) ==
    LET At(h) == hero_pos_of(h) = P IN SelectSeq(hands, At)

\* C7: for every key P of compute_positional's result, bb_per_100 is the
\* bb/100 formula over the hands filed under P (their results, their mean big
\* blind, their number), and that number is the 'hands' count of P.
C7_PositionalBb100 ==
    PositionalComputed =>
        \A P \in DOMAIN pos_output[1] :
            LET sub == HandsAt(P)
            IN  /\ Len(sub) = pos_output[1][P].hands
                /\ pos_output[1][P].bb_per_100 =
                       bb100(Sum([k \in 1..Len(sub) |-> sub[k].hero_result]),
                             mean([k \in 1..Len(sub) |-> sub[k].bb]), Len(sub))

Labels == {"BTN", "SB", "BB", "UTG", "MP", "CO"}

HeroSeated(h) == \E k \in 1..Len(h.players) : h.players[k].name = hero

\* the label at index (hero's rank in ascending seat order) mod 6
RankLabel(h) ==
    LET me == CHOOSE k \in 1..Len(h.players) : h.players[k].name = hero
        rank == Cardinality({k \in 1..Len(h.players) :
                                h.players[k].seat < h.players[me].seat})
    IN  <<"BTN", "SB", "BB", "UTG", "MP", "CO">>[(rank % 6) + 1]

FiledUnder(h) == IF HeroSeated(h) THEN RankLabel(h) ELSE "UNKNOWN"

C8_KeysAreLabelsOrUnknown ==
    /\ DOMAIN pos_stats \subseteq Labels \cup {"UNKNOWN"}
    /\ PositionalComputed => DOMAIN pos_output[1] \subseteq Labels \cup {"UNKNOWN"}

C8_FiledUnderRankLabel ==
    n_added' = n_added + 1 =>
        LET key == FiledUnder(hands'[Len(hands')])
        IN  /\ key \in DOMAIN pos_stats'
            /\ pos_stats'[key]["hands"] =
                   (IF key \in DOMAIN pos_stats THEN pos_stats[key]["hands"] ELSE 0) + 1

C10_Totals ==
    /\ hands_count = n_added
    /\ Len(hands) = n_added
    /\ PosTotal("hands") = n_added
    /\ PosTotal("vpip") = vpip
    /\ PosTotal("pfr") = pfr
    /\ PosTotal("cbet_flop") = cbet_flop
    /\ PosTotal("cbet_turn") = cbet_turn

HandsAtKey(ps, q) == IF q \in DOMAIN ps THEN DictGet(ps[q], "hands", 0) ELSE 0

C10_OneKeyPerIngest ==
    n_added' = n_added + 1 =>
        \E q \in DOMAIN pos_stats' :
            /\ HandsAtKey(pos_stats', q) = HandsAtKey(pos_stats, q) + 1
            /\ \A r \in (DOMAIN pos_stats' \cup DOMAIN pos_stats) \ {q} :
                   HandsAtKey(pos_stats', r) = HandsAtKey(pos_stats, r)

\* C10: after n add_hand calls hands_count = n = len(hands) = the sum of the
\* positional 'hands' counters, and vpip, pfr, cbet_flop, cbet_turn each equal
\* the sum of the positional counters of the same name; each add_hand raises
\* exactly one position's 'hands' counter, by 1.
C10_CountersAgree == []C10_Totals /\ [][C10_OneKeyPerIngest]_vars

C10_Witness ==
    /\ n_added = MaxHands
    /\ Cardinality(DOMAIN pos_stats) >= 2
    /\ vpip > pfr /\ pfr >= 1 /\ cbet_flop >= 1 /\ cbet_turn >= 1

(***************************************************************************)
(* Claims about the parser, checked under SpecParse                        *)
(***************************************************************************)
Returned == pc = "returned"

ReturnedHand == pc = "returned" /\ hand # NoValue

BoardTokens(text) ==
    LET m == FirstLine(SelectSeq(text, IsBoard)) IN IF m # NoValue THEN Len(m[1].cards) ELSE 0

\* C5: a returned Hand has a board of 0, 3, 4 or 5 cards, and a block whose
\* Board line holds another number of card tokens is returned as a failure.
C5_BoardLength ==
    /\ ReturnedHand => Len(hand[1].board) \in {0, 3, 4, 5}
    /\ Returned /\ BoardTokens(hand_text) \notin {0, 3, 4, 5} => hand = NoValue

\* the street the claim has active after a section-marker line
ClaimedMarkerStreet(l) ==
    CASE "FLOP" \in l.words -> "flop"
      [] "TURN" \in l.words -> "turn"
      [] "RIVER" \in l.words -> "river"
      [] OTHER -> "preflop"

\* the <<street, actor, verb>> list the claim describes: the street starts as
\* preflop, changes on marker lines only, every action line adds one entry
RECURSIVE ClaimedActions(_, _)
ClaimedActions(text, str) ==
    IF text = << >> THEN << >>
    ELSE LET l == Head(text)
         IN  IF l.kind = "marker"
             THEN ClaimedActions(Tail(text), ClaimedMarkerStreet(l))
             ELSE IF l.kind = "action" /\ l.verb \in Verbs
             THEN <<<<str, l.actor, l.verb>>>> \o ClaimedActions(Tail(text), str)
             ELSE ClaimedActions(Tail(text), str)

\* C6: the actions of a returned Hand are the block's action lines, in line
\* order, each tagged with the street active at its line, preflop until the
\* first section marker.
C6_ActionsTaggedByStreet ==
    ReturnedHand =>
        [k \in 1..Len(hand[1].actions) |->
            <<hand[1].actions[k].street, hand[1].actions[k].actor,
              hand[1].actions[k].action>>] = ClaimedActions(hand_text, "preflop")

(***************************************************************************)
(* Claims about parse failures in the ingestion loop, checked under        *)
(* SpecMain                                                                *)
(***************************************************************************)
HandFields == {"hand_id", "datetime", "table", "sb", "bb", "hero", "hero_cards",
               "players", "actions", "board", "hero_result"}

HandOrNone == hand = NoValue \/ (Len(hand) = 1 /\ DOMAIN hand[1] = HandFields)

Decimal(tok) == tok \in {"1", "2", "20", "100"}

\* some stake or stack token of the block is not a decimal
HasNonDecimalToken(text) ==
    \E k \in 1..Len(text) :
        \/ text[k].kind = "blinds" /\ ~(Decimal(text[k].sb) /\ Decimal(text[k].bb))
        \/ text[k].kind = "seat" /\ ~Decimal(text[k].stack)

\* some stake or stack token the parser converts is rejected by float(): a
\* stake of the first Blinds line, or a digits-and-dots stack of a Seat line
HasRejectedToken(text) ==
    \/ \E k \in 1..Len(text) :
           /\ text[k].kind = "blinds"
           /\ \A j \in 1..(k - 1) : text[j].kind # "blinds"
           /\ ~FloatAccepts(text[k].sb) \/ ~FloatAccepts(text[k].bb)
    \/ \E k \in 1..Len(text) :
           /\ text[k].kind = "seat"
           /\ DigitsDots(text[k].stack)
           /\ ~FloatAccepts(text[k].stack)

Added == Len(SelectSeq(ingest_log, LAMBDA e : e = "added"))

C9_Contained ==
    /\ pc # "crashed"
    /\ Returned => HandOrNone
    /\ hands_count = Added /\ Len(hands) = Added /\ n_added = Added
    /\ Len(ingest_log) = blocks_done

C9_FailedBlockSkipped ==
    pc = "returned" /\ hand = NoValue =>
        /\ aggVars' = aggVars
        /\ pc' = "idle"
        /\ ingest_log' = Append(ingest_log, "failed")

\* C9 as stated: parse_hand never raises and returns a Hand or the failure
\* value; a block holding a stake or stack that is not a decimal returns the
\* failure value; failed blocks add nothing to the aggregator.
C9_NonDecimalTokenFails ==
    /\ C9_Contained
    /\ Returned /\ HasNonDecimalToken(hand_text) => hand = NoValue

\* C9 amended: parse_hand never raises and returns a Hand or the failure
\* value; a block in which float() rejects a stake of the first Blinds line or
\* the digits-and-dots stack of a Seat line returns the failure value; the
\* step that consumes a failure leaves every aggregator field unchanged and
\* the loop goes on to the next block.
C9_ParseFailureContained ==
    /\ [](C9_Contained /\ (Returned /\ HasRejectedToken(hand_text) => hand = NoValue))
    /\ [][C9_FailedBlockSkipped]_vars

C9_Witness ==
    /\ ingest_log = <<"failed", "added">>
    /\ hands_count = 1
    /\ pc = "idle"

====
